---- MODULE Spec2Model ----
(***************************************************************************)
(* Diet optimization calculator: the tableau Simplex solver, in its three  *)
(* copies that differ in behaviour (the Express server's simplexSolve, the *)
(* C simplex_solve and the React component's simplex), together with the   *)
(* HTTP entry points that call the server copy.                            *)
(*                                                                         *)
(* Numbers are exact rationals [n, d] in lowest terms with d > 0; the      *)
(* programs use IEEE doubles, so rounding is not modelled.                 *)
(***************************************************************************)
EXTENDS Integers, Sequences, FiniteSets, TLC

(***************************************************************************)
(* Bounds of the model.                                                    *)
(***************************************************************************)
\* longest list of test-catalog foods sent to a solver
MaxFoods == 2
\* number of steps by which one requirement is raised between two calls
MaxRaise == 2

(***************************************************************************)
(* Rational arithmetic.                                                    *)
(***************************************************************************)
Abs(x) == IF x < 0 THEN -x ELSE x

Gcd(a, b) ==
    LET gcd[x \in Nat, y \in Nat] == IF y = 0 THEN x ELSE gcd[y, x % y]
    IN  gcd[a, b]

R(n, d) ==
    LET norm[x \in Int, y \in Int] ==
            LET s == IF y < 0 THEN -1 ELSE 1
                g == Gcd(Abs(x), Abs(y))
            IN  [n |-> (s * x) \div g, d |-> (s * y) \div g]
    IN  norm[n, d]

Zero == R(0, 1)
One == R(1, 1)

\* the operands are taken as values (function arguments), computed once
Rat == [n : Int, d : Int]

\* common factors are divided out before multiplying, which keeps the
\* intermediate integers small
RAdd(a, b) ==
    LET add[x \in Rat, y \in Rat] ==
            LET g == Gcd(x.d, y.d)
            IN  R(x.n * (y.d \div g) + y.n * (x.d \div g), (x.d \div g) * y.d)
    IN  add[a, b]
RSub(a, b) ==
    LET sub[x \in Rat, y \in Rat] ==
            LET g == Gcd(x.d, y.d)
            IN  R(x.n * (y.d \div g) - y.n * (x.d \div g), (x.d \div g) * y.d)
    IN  sub[a, b]
RMul(a, b) ==
    LET mul[x \in Rat, y \in Rat] ==
            LET g1 == Gcd(Abs(x.n), y.d)
                g2 == Gcd(Abs(y.n), x.d)
            IN  R((x.n \div g1) * (y.n \div g2), (x.d \div g2) * (y.d \div g1))
    IN  mul[a, b]
RDiv(a, b) ==
    LET div[x \in Rat, y \in Rat] ==
            LET g1 == IF x.n = 0 /\ y.n = 0 THEN 1 ELSE Gcd(Abs(x.n), Abs(y.n))
                g2 == Gcd(x.d, y.d)
            IN  R((x.n \div g1) * (y.d \div g2), (x.d \div g2) * (y.n \div g1))
    IN  div[a, b]
RNeg(a) == [n |-> -a.n, d |-> a.d]

\* a/b < c/d for b, d > 0, by comparing integer parts and then the
\* reciprocals of the fractional parts (no products, so no overflow)
FracLt(a, b, c, d) ==
    LET lt[w \in Int, x \in Int, y \in Int, z \in Int] ==
            LET qa == w \div x
                qc == y \div z
                ra == w % x
                rc == y % z
            IN  IF qa # qc THEN qa < qc
                ELSE IF rc = 0 THEN FALSE
                ELSE IF ra = 0 THEN TRUE
                ELSE lt[z, rc, x, ra]
    IN  lt[a, b, c, d]

RLt(a, b) == FracLt(a.n, a.d, b.n, b.d)
RLe(a, b) == ~RLt(b, a)
RAbs(a) == [n |-> Abs(a.n), d |-> a.d]
\* Math.max(0, x) left out: the second operand as it is
RMaxNone(a, b) == b

RMax(a, b) == IF RLt(a, b) THEN b ELSE a

(***************************************************************************)
(* Program constants.                                                      *)
(***************************************************************************)
numConstraints == 5
maxIterations == 100
maxIter == 50
epsilon == R(1, 1000000)

Keys == 0 .. numConstraints - 1

\* which copy of the solver an entry point runs, and its iteration cap
Entries == {"optimize", "dual", "cli", "browser"}
IsServer(e) == e \in {"optimize", "dual"}
Cap(e) == IF e = "browser" THEN maxIter ELSE maxIterations

(***************************************************************************)
(* Inputs.                                                                 *)
(***************************************************************************)
Vec(a, b, c, d, e) == [i \in Keys |->
    CASE i = 0 -> a [] i = 1 -> b [] i = 2 -> c [] i = 3 -> d [] OTHER -> e]

Food(nm, c, v) == [name |-> nm, cost |-> c, nutrients |-> v]

\* the five default foods of both user interfaces
ReferenceFoods ==
    LET l == << Food("Oatmeal", R(1, 2),
                     Vec(R(5, 1), R(27, 1), R(3, 1), R(4, 1), R(15, 1))),
                Food("Chicken Breast", R(3, 1),
                     Vec(R(31, 1), Zero, R(18, 5), Zero, R(10, 1))),
                Food("Brown Rice", R(3, 10),
                     Vec(R(13, 5), R(23, 1), R(9, 10), R(9, 5), R(5, 1))),
                Food("Broccoli", R(3, 2),
                     Vec(R(14, 5), R(7, 1), R(2, 5), R(13, 5), R(135, 1))),
                Food("Banana", R(1, 4),
                     Vec(R(13, 10), R(27, 1), R(3, 10), R(31, 10), R(17, 1))) >>
    IN  [j \in 0 .. 4 |-> l[j + 1]]

ReferenceConstraints == Vec(R(50, 1), R(130, 1), R(44, 1), R(25, 1), R(100, 1))

IVec(a, b) == Vec(R(a, 1), R(b, 1), Zero, Zero, Zero)

\* foods a request body or an edited food table can hold: the solvers accept
\* any numbers, negative ones included
TestCatalog ==
    { Food("A", R(-2, 1), IVec(-2, 2)),
      Food("B", R(-2, 1), IVec(0, 1)),
      Food("C", R(1, 1), IVec(-1, 0)),
      Food("D", R(-2, 1), IVec(-2, 1)),
      Food("Free", Zero, IVec(0, 0)),
      Food("Paid", R(-1, 1), IVec(0, 0)),
      ReferenceFoods[0] }

FoodNamed(nm) == CHOOSE f \in TestCatalog : f.name = nm

\* more lists a request body or an edited food table can hold: one that
\* ends with a negative objective entry under a slack column, one with a
\* coefficient between 0 and epsilon (0.0000005), and one whose two rows tie
\* in the ratio test
SpecialLists ==
    { [j \in 0 .. 1 |-> IF j = 0 THEN Food("E", R(-2, 1), IVec(2, 1))
                                  ELSE Food("F", R(-2, 1), IVec(-2, 0))],
      [j \in 0 .. 0 |-> Food("Tiny", R(-1, 1),
                              Vec(R(1, 2000000), Zero, Zero, Zero, Zero))],
      [j \in 0 .. 0 |-> Food("T", R(-1, 1), IVec(1, 1))] }

FoodLists ==
    {ReferenceFoods} \cup SpecialLists
        \cup UNION {[0 .. k - 1 -> TestCatalog] : k \in 0 .. MaxFoods}

ReqSets == {ReferenceConstraints, IVec(-2, -2), IVec(0, 0), IVec(1, -1)}


(***************************************************************************)
(* Tableau: the matrix is a function from row index to a function from     *)
(* column index to a number, both 0-based as in the sources.               *)
(***************************************************************************)
numFoods(fs) == Cardinality(DOMAIN fs)
Rows(M) == Cardinality(DOMAIN M)
Cols(M) == Cardinality(DOMAIN M[0])

\* simplexSolve / simplex_solve: zero-filled Tableau, then the constraint
\* rows and the objective row are written
\* the tableau with the requirement written into the RHS column as it is
InitialTableauPlainRHS(fs, cs) ==
    LET numVars == numFoods(fs)
        totalCols == numVars + numConstraints + 1
    IN  [i \in 0 .. numConstraints |-> [j \in 0 .. totalCols - 1 |->
            IF i < numConstraints
            THEN IF j < numVars THEN RNeg(fs[j].nutrients[i])
                 ELSE IF j = numVars + i THEN R(-1, 1)
                 ELSE IF j = totalCols - 1 THEN cs[i]
                 ELSE Zero
            ELSE IF j < numVars THEN fs[j].cost ELSE Zero]]

InitialTableau(fs, cs) ==
    LET numVars == numFoods(fs)
        totalCols == numVars + numConstraints + 1
        totalRows == numConstraints + 1
    IN  [i \in 0 .. totalRows - 1 |-> [j \in 0 .. totalCols - 1 |->
            IF i < numConstraints
            THEN IF j < numVars THEN RNeg(fs[j].nutrients[i])
                 ELSE IF j = numVars + i THEN R(-1, 1)
                 ELSE IF j = totalCols - 1 THEN RNeg(cs[i])
                 ELSE Zero
            ELSE IF j < numVars THEN fs[j].cost ELSE Zero]]

InitialBasis(fs) ==
    [i \in 0 .. numConstraints |->
        IF i < numConstraints THEN numFoods(fs) + i ELSE 0]

\* DietOptimizer.simplex: the rows are pushed one by one
BrowserTableau(fs, cs) ==
    LET numVars == numFoods(fs)
        row(i) == [j \in 0 .. numVars + numConstraints |->
            IF j < numVars THEN RNeg(fs[j].nutrients[i])
            ELSE IF j < numVars + numConstraints
                 THEN (IF i = j - numVars THEN R(-1, 1) ELSE Zero)
            ELSE RNeg(cs[i])]
        objRow == [j \in 0 .. numVars + numConstraints |->
            IF j < numVars THEN fs[j].cost ELSE Zero]
    IN  [i \in 0 .. numConstraints |-> IF i < numConstraints THEN row(i) ELSE objRow]

\* the scan of the objective row: the first strictly smaller value wins
RECURSIVE ScanColumns(_, _, _, _, _)
ScanColumns(objRow, j, last, minVal, pivotCol) ==
    IF j >= last THEN pivotCol
    ELSE IF RLt(objRow[j], minVal)
         THEN ScanColumns(objRow, j + 1, last, objRow[j], j)
         ELSE ScanColumns(objRow, j + 1, last, minVal, pivotCol)

\* the scan started at epsilon instead of 0: a zero objective entry is eligible
FindPivotColumnTol(M) == ScanColumns(M[Rows(M) - 1], 0, Cols(M) - 1, epsilon, -1)

\* the scan with <= in place of <: the highest index wins a tie
RECURSIVE ScanColumnsLe(_, _, _, _, _)
ScanColumnsLe(objRow, j, last, minVal, pivotCol) ==
    IF j >= last THEN pivotCol
    ELSE IF RLe(objRow[j], minVal) /\ RLt(objRow[j], Zero)
         THEN ScanColumnsLe(objRow, j + 1, last, objRow[j], j)
         ELSE ScanColumnsLe(objRow, j + 1, last, minVal, pivotCol)

FindPivotColumnLast(M) ==
    ScanColumnsLe(M[Rows(M) - 1], 0, Cols(M) - 1, Zero, -1)

\* the scan started at -1: an objective entry in [-1, 0) is passed over
FindPivotColumnBelowOne(M) ==
    ScanColumns(M[Rows(M) - 1], 0, Cols(M) - 1, RNeg(One), -1)

FindPivotColumn(M) == ScanColumns(M[Rows(M) - 1], 0, Cols(M) - 1, Zero, -1)

\* the ratio test; minRatio is Infinity as long as pivotRow is -1
RECURSIVE ScanRows(_, _, _, _, _, _)
ScanRows(M, pivotCol, i, minRatio, pivotRow, bound) ==
    IF i >= Rows(M) - 1 THEN pivotRow
    ELSE LET elem == M[i][pivotCol]
             rhs == M[i][Cols(M) - 1]
         IN  IF RLt(elem, bound)
             THEN LET ratio == RDiv(RNeg(rhs), elem)
                  IN  IF RLt(Zero, ratio) /\ (pivotRow = -1 \/ RLt(ratio, minRatio))
                      THEN ScanRows(M, pivotCol, i + 1, ratio, i, bound)
                      ELSE ScanRows(M, pivotCol, i + 1, minRatio, pivotRow, bound)
             ELSE ScanRows(M, pivotCol, i + 1, minRatio, pivotRow, bound)

\* the ratio test with the sign of the ratio not looked at
RECURSIVE ScanRowsAnyRatio(_, _, _, _, _, _)
ScanRowsAnyRatio(M, pivotCol, i, minRatio, pivotRow, bound) ==
    IF i >= Rows(M) - 1 THEN pivotRow
    ELSE LET elem == M[i][pivotCol]
             rhs == M[i][Cols(M) - 1]
         IN  IF RLt(elem, bound)
             THEN LET ratio == RDiv(RNeg(rhs), elem)
                  IN  IF pivotRow = -1 \/ RLt(ratio, minRatio)
                      THEN ScanRowsAnyRatio(M, pivotCol, i + 1, ratio, i, bound)
                      ELSE ScanRowsAnyRatio(M, pivotCol, i + 1, minRatio, pivotRow, bound)
             ELSE ScanRowsAnyRatio(M, pivotCol, i + 1, minRatio, pivotRow, bound)

FindPivotRowAnyRatio(M, pivotCol) ==
    ScanRowsAnyRatio(M, pivotCol, 0, Zero, -1, RNeg(epsilon))

\* Tableau.findPivotRow / find_pivot_row: candidates are below -epsilon
FindPivotRow(M, pivotCol) == ScanRows(M, pivotCol, 0, Zero, -1, RNeg(epsilon))

\* DietOptimizer.simplex: candidates are below 0
BrowserLeaveRow(M, enterCol) == ScanRows(M, enterCol, 0, Zero, -1, Zero)

\* the elimination run over the constraint rows only, the objective row
\* left as it was
PivotConstraintRows(M, pivotRow, pivotCol) ==
    LET pivotElem == M[pivotRow][pivotCol]
        newRow == [j \in DOMAIN M[pivotRow] |-> RDiv(M[pivotRow][j], pivotElem)]
    IN  [i \in DOMAIN M |->
            IF i = pivotRow THEN newRow
            ELSE IF i = Rows(M) - 1 THEN M[i]
            ELSE [j \in DOMAIN M[i] |->
                     RSub(M[i][j], RMul(M[i][pivotCol], newRow[j]))]]

Pivot(M, pivotRow, pivotCol) ==
    LET at[r \in Int, c \in Int] ==
            LET pivotElem == M[r][c]
                newRow == [j \in DOMAIN M[r] |-> RDiv(M[r][j], pivotElem)]
            IN  [i \in DOMAIN M |->
                    IF i = r THEN newRow
                    ELSE LET factor == M[i][c]
                         IN  [j \in DOMAIN M[i] |->
                                 RSub(M[i][j], RMul(factor, newRow[j]))]]
    IN  at[pivotRow, pivotCol]

(***************************************************************************)
(* Reading the final tableau.                                              *)
(***************************************************************************)
SetMin(S) == CHOOSE x \in S : \A y \in S : x <= y

\* the first constraint row at which column j is a unit vector, or -1
BasicRow(M, j) ==
    LET S == {i \in Keys :
                /\ RLt(RAbs(RSub(M[i][j], One)), epsilon)
                /\ \A k \in Keys : ~(k # i /\ RLt(epsilon, RAbs(M[k][j])))}
    IN  IF S = {} THEN -1 ELSE SetMin(S)

\* the basic-column test left out: item j is read off the RHS of row j
ExtractAmountsByRow(M, n) ==
    [j \in 0 .. n - 1 |->
        IF j < numConstraints THEN RMax(Zero, M[j][Cols(M) - 1]) ELSE Zero]

ExtractAmounts(M, n) ==
    [j \in 0 .. n - 1 |->
        LET basicRow == BasicRow(M, j)
        IN  IF basicRow >= 0 THEN RMax(Zero, M[basicRow][Cols(M) - 1]) ELSE Zero]

\* the browser copy looks at the whole column, objective row included
BrowserAmounts(M, n) ==
    [j \in 0 .. n - 1 |->
        LET nonZero == {i \in DOMAIN M : RLt(epsilon, RAbs(M[i][j]))}
            ones == {i \in DOMAIN M : RLt(RAbs(RSub(M[i][j], One)), epsilon)}
        IN  IF Cardinality(nonZero) = 1 /\ nonZero \subseteq ones
            THEN RMax(Zero, M[SetMin(ones)][Cols(M) - 1])
            ELSE Zero]

RECURSIVE SumCost(_, _, _)
SumCost(amounts, fs, k) ==
    IF k = 0 THEN Zero
    ELSE RAdd(SumCost(amounts, fs, k - 1), RMul(amounts[k - 1], fs[k - 1].cost))

TotalCost(amounts, fs) == SumCost(amounts, fs, numFoods(fs))

\* Math.abs left out: the objective-row entries as they are
ShadowPricesRaw(M, n) == [i \in Keys |-> M[Rows(M) - 1][n + i]]

\* the slack entries read in the first constraint row instead of the
\* objective row
ShadowPricesFirstRow(M, n) == [i \in Keys |-> RAbs(M[0][n + i])]

ShadowPrices(M, n) == [i \in Keys |-> RAbs(M[Rows(M) - 1][n + i])]

(***************************************************************************)
(* The sensitivity sweep.                                                  *)
(***************************************************************************)
\* for (pct = -50; pct <= 50; pct += 10)
PctSteps == [k \in 1 .. 11 |-> 10 * k - 60]

\* the impact taken against the cost itself instead of the cost difference
SweepEntryOff(cost, amount, pct) ==
    LET newCost == RMul(cost, RAdd(One, R(pct, 100)))
    IN  [priceChange |-> pct,
         newPrice |-> newCost,
         impactOnTotal |-> RSub(RMul(amount, newCost), cost)]

SweepEntry(cost, amount, pct) ==
    LET newCost == RMul(cost, RAdd(One, R(pct, 100)))
    IN  [priceChange |-> pct,
         newPrice |-> newCost,
         impactOnTotal |-> RMul(amount, RSub(newCost, cost))]

\* POST /api/sensitivity and sensitivity_analysis: one record per item whose
\* amount is above epsilon, items j .. n-1
RECURSIVE SensData(_, _, _)
SensData(amounts, fs, j) ==
    IF j >= numFoods(fs) THEN << >>
    ELSE IF RLt(epsilon, amounts[j])
         THEN << [food |-> fs[j].name,
                  currentPrice |-> fs[j].cost,
                  quantity |-> amounts[j],
                  analysis |-> [k \in DOMAIN PctSteps |->
                      SweepEntry(fs[j].cost, amounts[j], PctSteps[k])]] >>
              \o SensData(amounts, fs, j + 1)
         ELSE SensData(amounts, fs, j + 1)

\* Number.prototype.toFixed(2), as the number the string denotes: the nearest
\* multiple of 0.01, a tie going away from zero
ToFixed2(x) ==
    LET q == (200 * Abs(x.n) + x.d) \div (2 * x.d)
    IN  R(IF x.n < 0 THEN -q ELSE q, 100)

\* the browser's threshold for an item to appear in the sweep
usedThreshold == R(1, 100)

\* generateSensitivityAnalysis: a flat list, eleven entries per item whose
\* amount is above 0.01, the numbers formatted with toFixed(2)
RECURSIVE BrowserSensData(_, _, _)
BrowserSensData(amounts, fs, j) ==
    IF j >= numFoods(fs) THEN << >>
    ELSE IF RLt(usedThreshold, amounts[j])
         THEN [k \in DOMAIN PctSteps |->
                  LET e == SweepEntry(fs[j].cost, amounts[j], PctSteps[k])
                  IN  [food |-> fs[j].name,
                       priceChange |-> e.priceChange,
                       newPrice |-> ToFixed2(e.newPrice),
                       impactOnTotal |-> ToFixed2(e.impactOnTotal)]]
              \o BrowserSensData(amounts, fs, j + 1)
         ELSE BrowserSensData(amounts, fs, j + 1)

\* amounts: the amounts the analyzer was handed; data: what it built
NoSens == [called |-> FALSE, amounts |-> << >>, data |-> << >>]

\* sensitivityData after simplex() has run in the browser; the other copies
\* leave the analysis to a later call
SensAfterSolve(e, s, fs, old) ==
    IF e = "browser" /\ s.kind = "solution"
    THEN [called |-> TRUE, amounts |-> s.amounts,
          data |-> BrowserSensData(s.amounts, fs, 0)]
    ELSE old

(***************************************************************************)
(* What a solver hands back.  kind is "solution" for the object built from *)
(* the tableau, "error" for { error: 'Problem is unbounded' } and "none"   *)
(* for nothing at all (no call finished, or the C copy's NULL).  The       *)
(* browser's solution object has no feasible field, shown as FALSE.        *)
(***************************************************************************)
NoSol ==
    [kind |-> "none", amounts |-> << >>, totalCost |-> Zero,
     shadowPrices |-> << >>, feasible |-> FALSE]

ErrorSol == [NoSol EXCEPT !.kind = "error"]

Solution(e, M, fs) ==
    LET amounts == IF e = "browser" THEN BrowserAmounts(M, numFoods(fs))
                   ELSE ExtractAmounts(M, numFoods(fs))
    IN  [kind |-> "solution",
         amounts |-> amounts,
         totalCost |-> TotalCost(amounts, fs),
         shadowPrices |-> ShadowPrices(M, numFoods(fs)),
         feasible |-> (e # "browser")]

\* what each copy hands back when no leaving row exists: the server the error
\* object, the C copy NULL; the browser copy breaks out of its loop and reads
\* the tableau all the same
UnboundedSol(e, M, fs) ==
    CASE IsServer(e) -> ErrorSol
      [] e = "cli" -> NoSol
      [] OTHER -> Solution(e, M, fs)

NoResponse == [status |-> 0, body |-> "none"]

\* what the route handler sends once simplexSolve has returned s
Respond(e, s) ==
    IF ~IsServer(e) THEN NoResponse
    ELSE IF s.kind = "error" THEN [status |-> 400, body |-> "error"]
    ELSE IF e = "dual" THEN [status |-> 200, body |-> "dual"]
    ELSE [status |-> 200, body |-> "solution"]

(***************************************************************************)
(* State.                                                                  *)
(***************************************************************************)
VARIABLES
    entry,          \* the entry point that received the input
    foodsGiven,     \* whether the request body has a foods field at all
    foods,          \* the item list, 0-based
    constraints,    \* the requirement per nutrient key
    pc,             \* "idle", "Running", or the way the call ended
    matrix,         \* the tableau of the running call
    basis,          \* Tableau.basis
    iteration,      \* the loop counter
    iterations,     \* the snapshots pushed so far
    sol,            \* what the solver returned
    response,       \* what the HTTP caller received
    pivots,         \* history: number of pivot operations performed
    lastPivot,      \* history: row and column of the latest pivot
    entered,        \* history: the entering column chosen most recently
    prev,           \* what the caller kept of its previous call, if any
    log,            \* history: the calls that returned before the current one
    sens,           \* the sensitivity result (the browser's sensitivityData)
    ui              \* the fields of the UI component in front of the solver

vars == << entry, foodsGiven, foods, constraints, pc, matrix, basis, iteration,
           iterations, sol, response, pivots, lastPivot, entered, prev, log,
           sens, ui >>

\* what the caller holds while a call runs
input == << entry, foodsGiven, foods, constraints, prev, log, ui >>

\* no UI component in front of the solver
NoUi == [framework |-> "none"]

NoPrev ==
    [called |-> FALSE, constraints |-> << >>, kind |-> "none", totalCost |-> Zero,
     shadowPrices |-> << >>, basis |-> << >>]

NoMatrix == << >>
NoPivot == [row |-> -1, col |-> -1]

Terminal == {"Optimal", "Unbounded", "IterationLimitReached", "InvalidInput"}

\* the column and row the running call would pick on its tableau
pivotCol == FindPivotColumn(matrix)
pivotRow ==
    IF entry = "browser" THEN BrowserLeaveRow(matrix, pivotCol)
    ELSE FindPivotRow(matrix, pivotCol)

Init ==
    /\ entry \in Entries
    /\ foodsGiven \in BOOLEAN
    /\ foods \in FoodLists
    /\ constraints \in ReqSets
    /\ foodsGiven \/ (IsServer(entry) /\ foods = << >>)
    /\ pc = "idle"
    /\ matrix = NoMatrix
    /\ basis = << >>
    /\ iteration = 0
    /\ iterations = << >>
    /\ sol = NoSol
    /\ response = NoResponse
    /\ pivots = 0
    /\ lastPivot = NoPivot
    /\ entered = -1
    /\ prev = NoPrev
    /\ log = << >>
    /\ sens = NoSens
    /\ ui = NoUi

\* the checks of the route handlers before simplexSolve is called
Invalid ==
    /\ IsServer(entry)
    /\ \/ ~foodsGiven
       \/ entry = "optimize" /\ numFoods(foods) = 0

Reject ==
    /\ pc = "idle"
    /\ Invalid
    /\ pc' = "InvalidInput"
    /\ response' = [status |-> 400, body |-> "error"]
    /\ UNCHANGED << input, matrix, basis, iteration, iterations, sol, pivots,
                    lastPivot, entered, sens >>

\* the tableau kept in one place for all calls and not cleared: only the
\* entries the construction writes are fresh, the others are left over
StartShared ==
    /\ pc = "idle"
    /\ ~Invalid
    /\ matrix' =
          LET fresh == IF entry = "browser" THEN BrowserTableau(foods, constraints)
                       ELSE InitialTableau(foods, constraints)
              n == numFoods(foods)
              written(i, j) == IF i < numConstraints
                               THEN j < n \/ j = n + i \/ j = Cols(fresh) - 1
                               ELSE j < n
              kept(i, j) == /\ matrix # NoMatrix
                            /\ i \in DOMAIN matrix
                            /\ j \in DOMAIN matrix[i]
          IN  [i \in DOMAIN fresh |-> [j \in DOMAIN fresh[i] |->
                  IF ~written(i, j) /\ kept(i, j) THEN matrix[i][j] ELSE fresh[i][j]]]
    /\ basis' = IF entry = "browser" THEN << >> ELSE InitialBasis(foods)
    /\ iteration' = 0
    /\ iterations' = << >>
    /\ pc' = "Running"
    /\ UNCHANGED << input, sol, response, pivots, lastPivot, entered, sens >>

\* the tableau is constructed and the loop is about to start
Start ==
    /\ pc = "idle"
    /\ ~Invalid
    /\ matrix' = IF entry = "browser" THEN BrowserTableau(foods, constraints)
                 ELSE InitialTableau(foods, constraints)
    /\ basis' = IF entry = "browser" THEN << >> ELSE InitialBasis(foods)
    /\ iteration' = 0
    /\ iterations' = << >>
    /\ pc' = "Running"
    /\ UNCHANGED << input, sol, response, pivots, lastPivot, entered, sens >>

\* the snapshot pushed at the top of the loop body (the C copy keeps none)
Snapshot == IF entry = "cli" THEN iterations ELSE Append(iterations, matrix)

\* the loop body with its iteration++ left out
IterateNoCount ==
    /\ pc = "Running"
    /\ iteration < Cap(entry)
    /\ pivotCol # -1
    /\ pivotRow # -1
    /\ iterations' = Snapshot
    /\ matrix' = Pivot(matrix, pivotRow, pivotCol)
    /\ basis' = IF entry = "browser" THEN basis
                ELSE [basis EXCEPT ![pivotRow] = pivotCol]
    /\ pivots' = pivots + 1
    /\ lastPivot' = [row |-> pivotRow, col |-> pivotCol]
    /\ entered' = pivotCol
    /\ UNCHANGED << input, pc, sol, response, iteration, sens >>

\* one pass of the loop body that pivots
Iterate ==
    /\ pc = "Running"
    /\ iteration < Cap(entry)
    /\ pivotCol # -1
    /\ pivotRow # -1
    /\ iterations' = Snapshot
    /\ matrix' = Pivot(matrix, pivotRow, pivotCol)
    /\ basis' = IF entry = "browser" THEN basis
                ELSE [basis EXCEPT ![pivotRow] = pivotCol]
    /\ iteration' = iteration + 1
    /\ pivots' = pivots + 1
    /\ lastPivot' = [row |-> pivotRow, col |-> pivotCol]
    /\ entered' = pivotCol
    /\ UNCHANGED << input, pc, sol, response, sens >>

\* an entering column without a leaving row
NoLeavingRow ==
    /\ pc = "Running"
    /\ iteration < Cap(entry)
    /\ pivotCol # -1
    /\ pivotRow = -1
    /\ iterations' = Snapshot
    /\ sol' = UnboundedSol(entry, matrix, foods)
    /\ response' = Respond(entry, sol')
    /\ sens' = SensAfterSolve(entry, sol', foods, sens)
    /\ pc' = "Unbounded"
    /\ entered' = pivotCol
    /\ UNCHANGED << input, matrix, basis, iteration, pivots, lastPivot >>

\* the loop ends by its break or by its guard, and the tableau is read
Finish ==
    /\ pc = "Running"
    /\ iteration >= Cap(entry) \/ pivotCol = -1
    /\ iterations' = IF iteration < Cap(entry) THEN Snapshot ELSE iterations
    /\ sol' = Solution(entry, matrix, foods)
    /\ response' = Respond(entry, sol')
    /\ sens' = SensAfterSolve(entry, sol', foods, sens)
    /\ pc' = IF iteration < Cap(entry) THEN "Optimal" ELSE "IterationLimitReached"
    /\ UNCHANGED << input, matrix, basis, iteration, pivots, lastPivot, entered >>

\* amounts a client can put into the solution of a request body
PostedAmounts == {R(1, 2000000), R(1, 200)}

\* the caller hands a Solution and its items to the analyzer: main passes
\* the Solution it received to sensitivity_analysis; the body of a
\* POST /api/sensitivity holds the one received or any other
Sensitivity ==
    /\ entry \in {"optimize", "cli"}
    /\ pc \in Terminal
    /\ sol.kind = "solution"
    /\ ~sens.called
    /\ \E amounts \in {sol.amounts} \cup
              (IF entry = "optimize"
               THEN {[j \in DOMAIN foods |-> a] : a \in PostedAmounts}
               ELSE {}) :
           sens' = [called |-> TRUE, amounts |-> amounts,
                    data |-> SensData(amounts, foods, 0)]
    /\ UNCHANGED << input, pc, matrix, basis, iteration, iterations, sol, response,
                    pivots, lastPivot, entered >>

Next == Reject \/ Start \/ Iterate \/ NoLeavingRow \/ Finish \/ Sensitivity

Spec == Init /\ [][Next]_vars

\* a call is one synchronous computation: once entered it runs until it returns
FairSpec == Spec /\ WF_vars(Next)

(***************************************************************************)
(* One call as a function of its arguments: the loop run to its end.       *)
(***************************************************************************)
RECURSIVE RunLoop(_, _, _, _, _)
RunLoop(e, M, bs, it, snaps) ==
    IF it >= Cap(e)
    THEN [how |-> "IterationLimitReached", matrix |-> M, basis |-> bs,
          iteration |-> it, iterations |-> snaps]
    ELSE LET pushed == IF e = "cli" THEN snaps ELSE Append(snaps, M)
             c == FindPivotColumn(M)
             r == IF e = "browser" THEN BrowserLeaveRow(M, c) ELSE FindPivotRow(M, c)
         IN  IF c = -1
             THEN [how |-> "Optimal", matrix |-> M, basis |-> bs,
                   iteration |-> it, iterations |-> pushed]
             ELSE IF r = -1
             THEN [how |-> "Unbounded", matrix |-> M, basis |-> bs,
                   iteration |-> it, iterations |-> pushed]
             ELSE RunLoop(e, Pivot(M, r, c),
                          IF e = "browser" THEN bs ELSE [bs EXCEPT ![r] = c],
                          it + 1, pushed)

Solve(e, fs, cs) ==
    LET fin == IF e = "browser"
               THEN RunLoop(e, BrowserTableau(fs, cs), << >>, 0, << >>)
               ELSE RunLoop(e, InitialTableau(fs, cs), InitialBasis(fs), 0, << >>)
    IN  [fin |-> fin,
         sol |-> IF fin.how = "Unbounded" THEN UnboundedSol(e, fin.matrix, fs)
                 ELSE Solution(e, fin.matrix, fs)]

\* a whole call in one step
SolveCall ==
    /\ pc = "idle"
    /\ ~Invalid
    /\ \E out \in {Solve(entry, foods, constraints)} :
           /\ matrix' = out.fin.matrix
           /\ basis' = out.fin.basis
           /\ iteration' = out.fin.iteration
           /\ iterations' = out.fin.iterations
           /\ pivots' = out.fin.iteration
           /\ pc' = out.fin.how
           /\ sol' = out.sol
           /\ response' = Respond(entry, out.sol)
           /\ sens' = SensAfterSolve(entry, out.sol, foods, sens)
    /\ UNCHANGED << input, lastPivot, entered >>

\* the amount by which a requirement is raised
RaiseBy(k) == R(10 * k, 1)

\* the caller keeps the result, raises one requirement and calls again
Raise ==
    /\ pc \in Terminal
    /\ ~prev.called
    /\ \E i \in Keys, k \in 1 .. MaxRaise :
          constraints' = [constraints EXCEPT ![i] = RAdd(@, RaiseBy(k))]
    /\ prev' = [called |-> TRUE, constraints |-> constraints,
                kind |-> sol.kind, totalCost |-> sol.totalCost,
                shadowPrices |-> sol.shadowPrices, basis |-> basis]
    /\ pc' = "idle"
    /\ matrix' = NoMatrix
    /\ basis' = << >>
    /\ iteration' = 0
    /\ iterations' = << >>
    /\ sol' = NoSol
    /\ response' = NoResponse
    /\ pivots' = 0
    /\ UNCHANGED << entry, foodsGiven, foods, lastPivot, entered, log, sens, ui >>

\* requirement sets the reference items are solved for before one is raised
MonoBases ==
    { ReferenceConstraints,
      Vec(Zero, Zero, Zero, Zero, Zero),
      Vec(R(-50, 1), R(-130, 1), R(-44, 1), R(-25, 1), R(-100, 1)) }

InitMono ==
    /\ entry \in Entries
    /\ foodsGiven = TRUE
    /\ foods = ReferenceFoods
    /\ constraints \in MonoBases
    /\ pc = "idle"
    /\ matrix = NoMatrix
    /\ basis = << >>
    /\ iteration = 0
    /\ iterations = << >>
    /\ sol = NoSol
    /\ response = NoResponse
    /\ pivots = 0
    /\ lastPivot = NoPivot
    /\ entered = -1
    /\ prev = NoPrev
    /\ log = << >>
    /\ sens = NoSens
    /\ ui = NoUi

NextMono == SolveCall \/ Raise

SpecMono == InitMono /\ [][NextMono]_vars

(***************************************************************************)
(* A requirement raised by one unit between two calls: what the shadow     *)
(* prices of the first call are said to foretell.                          *)
(***************************************************************************)
RaiseOne ==
    /\ pc \in Terminal
    /\ ~prev.called
    /\ \E i \in Keys : constraints' = [constraints EXCEPT ![i] = RAdd(@, One)]
    /\ prev' = [called |-> TRUE, constraints |-> constraints,
                kind |-> sol.kind, totalCost |-> sol.totalCost,
                shadowPrices |-> sol.shadowPrices, basis |-> basis]
    /\ pc' = "idle"
    /\ matrix' = NoMatrix
    /\ basis' = << >>
    /\ iteration' = 0
    /\ iterations' = << >>
    /\ sol' = NoSol
    /\ response' = NoResponse
    /\ pivots' = 0
    /\ UNCHANGED << entry, foodsGiven, foods, lastPivot, entered, log, sens, ui >>

MarginalFoods ==
    { ReferenceFoods,
      [j \in 0 .. 0 |-> FoodNamed("C")],
      [j \in 0 .. 1 |-> IF j = 0 THEN FoodNamed("A") ELSE FoodNamed("B")] }

MarginalReqs == {ReferenceConstraints, IVec(-2, -2), IVec(1, -1)}

InitMarginal ==
    /\ entry \in Entries
    /\ foodsGiven = TRUE
    /\ foods \in MarginalFoods
    /\ constraints \in MarginalReqs
    /\ pc = "idle"
    /\ matrix = NoMatrix
    /\ basis = << >>
    /\ iteration = 0
    /\ iterations = << >>
    /\ sol = NoSol
    /\ response = NoResponse
    /\ pivots = 0
    /\ lastPivot = NoPivot
    /\ entered = -1
    /\ prev = NoPrev
    /\ log = << >>
    /\ sens = NoSens
    /\ ui = NoUi

NextMarginal == SolveCall \/ RaiseOne

SpecMarginal == InitMarginal /\ [][NextMarginal]_vars

(***************************************************************************)
(* Several calls one after another: a caller that got its answer calls the *)
(* same solver again, with the same or with other arguments.  The tableau  *)
(* of the call before is garbage the next call never looks at.             *)
(***************************************************************************)
\* number of calls one caller makes in a row
MaxCalls == 3

CallFoods ==
    { << >>,
      [j \in 0 .. 0 |-> FoodNamed("Paid")],
      [j \in 0 .. 1 |-> IF j = 0 THEN FoodNamed("A") ELSE FoodNamed("B")] }

CallReqs == {IVec(-2, -2), IVec(1, -1)}

\* what is remembered of a call that returned
Returns ==
    [foods |-> foods, constraints |-> constraints, how |-> pc,
     sol |-> sol, response |-> response]

CallAgain ==
    /\ pc \in Terminal
    /\ Len(log) + 1 < MaxCalls
    /\ log' = Append(log, Returns)
    /\ foods' \in CallFoods
    /\ constraints' \in CallReqs
    /\ pc' = "idle"
    /\ iteration' = 0
    /\ iterations' = << >>
    /\ sol' = NoSol
    /\ response' = NoResponse
    /\ pivots' = 0
    /\ lastPivot' = NoPivot
    /\ entered' = -1
    /\ UNCHANGED << entry, foodsGiven, prev, matrix, basis, sens, ui >>

InitCalls ==
    /\ entry \in Entries
    /\ foodsGiven = TRUE
    /\ foods \in CallFoods
    /\ constraints \in CallReqs
    /\ pc = "idle"
    /\ matrix = NoMatrix
    /\ basis = << >>
    /\ iteration = 0
    /\ iterations = << >>
    /\ sol = NoSol
    /\ response = NoResponse
    /\ pivots = 0
    /\ lastPivot = NoPivot
    /\ entered = -1
    /\ prev = NoPrev
    /\ log = << >>
    /\ sens = NoSens
    /\ ui = NoUi

NextCalls == Reject \/ Start \/ Iterate \/ NoLeavingRow \/ Finish \/ CallAgain

SpecCalls == InitCalls /\ [][NextCalls]_vars

(***************************************************************************)
(* Vocabulary of the properties.                                           *)
(***************************************************************************)
\* most servings of a single item tried when looking for a feasible diet
MaxServings == 15

RECURSIVE SumNutrient(_, _, _, _)
SumNutrient(amounts, fs, i, k) ==
    IF k = 0 THEN Zero
    ELSE RAdd(SumNutrient(amounts, fs, i, k - 1),
              RMul(amounts[k - 1], fs[k - 1].nutrients[i]))

\* the diet amounts provides at least requirement i minus slack
Meets(amounts, fs, cs, i, slack) ==
    RLe(RSub(cs[i], slack), SumNutrient(amounts, fs, i, numFoods(fs)))

NonNegativeInput(fs, cs) ==
    /\ \A j \in DOMAIN fs :
          /\ RLe(Zero, fs[j].cost)
          /\ \A i \in Keys : RLe(Zero, fs[j].nutrients[i])
    /\ \A i \in Keys : RLe(Zero, cs[i])

\* some whole number of servings of one item already meets every requirement
\* (enough for a nonnegative combination to exist)
SingleItemFeasible(fs, cs) ==
    \E j \in DOMAIN fs : \E k \in 0 .. MaxServings :
        \A i \in Keys : RLe(cs[i], RMul(R(k, 1), fs[j].nutrients[i]))

ZeroVector(f) == \A i \in Keys : f.nutrients[i] = Zero

ReferenceInput ==
    /\ foodsGiven
    /\ foods = ReferenceFoods
    /\ constraints = ReferenceConstraints

Returned == pc \in Terminal

(***************************************************************************)
(* C1: for the reference input solve ends with a Solution whose amounts    *)
(* meet all five requirements and whose totalCost is greater than 0.       *)
(* The solvers end at once with all amounts 0.                             *)
(***************************************************************************)
C1_ReferenceSolved ==
    ReferenceInput /\ Returned =>
        /\ sol.kind = "solution"
        /\ \A i \in Keys : Meets(sol.amounts, foods, constraints, i, Zero)
        /\ RLt(Zero, sol.totalCost)

(***************************************************************************)
(* C2: for nonnegative input that some nonnegative combination of the      *)
(* items satisfies, the returned Solution meets every requirement up to    *)
(* epsilon.                                                                *)
(***************************************************************************)
C2_FeasibleInputMet ==
    /\ foodsGiven
    /\ NonNegativeInput(foods, constraints)
    /\ SingleItemFeasible(foods, constraints)
    /\ sol.kind = "solution"
    => \A i \in Keys : Meets(sol.amounts, foods, constraints, i, epsilon)

(***************************************************************************)
(* C3: when the chosen entering column has no leaving row, the call ends   *)
(* Unbounded and no amounts, totalCost or shadowPrices reach the caller,   *)
(* in every copy of the solver.                                            *)
(***************************************************************************)
C3_UnboundedReturnsNothing ==
    pc = "Unbounded" => sol.kind # "solution"

(***************************************************************************)
(* C4, as stated: an item list that contains an item with zero cost and an *)
(* all-zero nutrientVector makes solve end Unbounded without a Solution.   *)
(***************************************************************************)
C4_FreeItemUnbounded ==
    /\ \E j \in DOMAIN foods : foods[j].cost = Zero /\ ZeroVector(foods[j])
    /\ Returned /\ pc # "InvalidInput"
    => pc = "Unbounded" /\ sol.kind # "solution"

(***************************************************************************)
(* C4, amended: the entering column is the column of an item with an       *)
(* all-zero nutrientVector only if that item's cost is negative (a zero    *)
(* cost never enters), and then the call ends Unbounded, the server and    *)
(* the C solver returning no Solution.                                     *)
(***************************************************************************)
C4_ZeroVectorEnters ==
    \A j \in DOMAIN foods :
        entered = j /\ ZeroVector(foods[j]) =>
            /\ RLt(foods[j].cost, Zero)
            /\ pc = "Unbounded"
            /\ entry # "browser" => sol.kind # "solution"

C4_Witness ==
    /\ entry = "optimize"
    /\ pc = "Unbounded"
    /\ sol.kind = "error"
    /\ entered \in DOMAIN foods
    /\ ZeroVector(foods[entered])
    /\ \E j \in DOMAIN foods : foods[j].cost = Zero /\ ZeroVector(foods[j])

(***************************************************************************)
(* C7: input with a negative unit cost, nutrient coefficient or            *)
(* requirement is rejected before a Tableau is constructed: no pivot, no   *)
(* Solution.                                                               *)
(***************************************************************************)
C7_NegativeRejected ==
    foodsGiven /\ ~NonNegativeInput(foods, constraints) =>
        /\ matrix = NoMatrix
        /\ pivots = 0
        /\ sol.kind # "solution"

(***************************************************************************)
(* C8: a request with an empty item list is rejected with an error before  *)
(* a Tableau is constructed, on /api/optimize and on /api/dual.            *)
(***************************************************************************)
C8_EmptyRejected ==
    IsServer(entry) /\ foodsGiven /\ numFoods(foods) = 0 =>
        /\ matrix = NoMatrix
        /\ Returned => pc = "InvalidInput" /\ response.status = 400

(***************************************************************************)
(* C9: in every returned Solution totalCost is the sum of amounts[j] times *)
(* unitCost[j] over the returned amounts, and is at least 0.               *)
(***************************************************************************)
C9_TotalCost ==
    sol.kind = "solution" =>
        /\ sol.totalCost = TotalCost(sol.amounts, foods)
        /\ RLe(Zero, sol.totalCost)

(***************************************************************************)
(* C10: for the reference item set, raising one requirement while the      *)
(* others keep their values never lowers the totalCost that solve returns. *)
(***************************************************************************)
C10_Monotone ==
    /\ prev.called
    /\ prev.kind = "solution"
    /\ sol.kind = "solution"
    => RLe(prev.totalCost, sol.totalCost)

C10_Witness ==
    /\ prev.called
    /\ prev.kind = "solution"
    /\ sol.kind = "solution"
    /\ foods = ReferenceFoods
    /\ prev.constraints = ReferenceConstraints
    /\ \E i \in Keys :
          /\ RLt(prev.constraints[i], constraints[i])
          /\ \A k \in Keys \ {i} : prev.constraints[k] = constraints[k]

\* the stepwise loop and the call as a function agree on what is returned
StepwiseAgrees ==
    pc \in Terminal \ {"InvalidInput"} =>
        LET out == Solve(entry, foods, constraints)
        IN  /\ pc = out.fin.how
            /\ sol = out.sol
            /\ matrix = out.fin.matrix
            /\ basis = out.fin.basis
            /\ iterations = out.fin.iterations
            /\ iteration = out.fin.iteration

C11_Deterministic ==
    pc \in Terminal =>
        \A k \in DOMAIN log :
            log[k].foods = foods /\ log[k].constraints = constraints =>
                /\ log[k].how = pc
                /\ log[k].sol = sol
                /\ log[k].response = response

C11_Witness ==
    /\ pc = "Optimal"
    /\ pivots = 2
    /\ Len(log) = 2
    /\ log[1].foods = foods /\ log[1].constraints = constraints
    /\ log[1].sol = sol
    /\ log[2].foods # foods
    /\ matrix # NoMatrix

(***************************************************************************)
(* C12: each returned shadow price is the marginal cost of its             *)
(* requirement: with requirement i raised by one unit, the others fixed    *)
(* and the final basis the same, the totalCost solve returns is higher by  *)
(* exactly shadowPrices[i] of the call before.                             *)
(***************************************************************************)
C12_ShadowIsMarginal ==
    /\ prev.called
    /\ prev.kind = "solution"
    /\ sol.kind = "solution"
    /\ entry # "browser"
    /\ prev.basis = basis
    => \A i \in Keys :
          constraints[i] = RAdd(prev.constraints[i], One) =>
              RSub(sol.totalCost, prev.totalCost) = prev.shadowPrices[i]

(***************************************************************************)
(* C13: every amount in every Solution returned by solve is >= 0 (one      *)
(* amount per item), whatever the input and however the call ended.        *)
(***************************************************************************)
C13_AmountsNonNegative ==
    sol.kind = "solution" =>
        /\ DOMAIN sol.amounts = DOMAIN foods
        /\ \A j \in DOMAIN sol.amounts : RLe(Zero, sol.amounts[j])

\* a returned Solution in which one item is basic in a row with a negative
\* RHS, and another item has a positive amount
C13_Witness ==
    /\ pc \in Terminal
    /\ sol.kind = "solution"
    /\ entry # "browser"
    /\ \E j \in DOMAIN foods :
          /\ BasicRow(matrix, j) >= 0
          /\ RLt(matrix[BasicRow(matrix, j)][Cols(matrix) - 1], Zero)
          /\ sol.amounts[j] = Zero
    /\ \E j \in DOMAIN foods : RLt(Zero, sol.amounts[j])

(***************************************************************************)
(* C14: every Solution returned by solve has exactly one shadow price per  *)
(* constraint; each is >= 0 and is the absolute value of the entry of the  *)
(* final objective row under that constraint's slack column.               *)
(***************************************************************************)
C14_ShadowPrices ==
    sol.kind = "solution" =>
        /\ DOMAIN sol.shadowPrices = Keys
        /\ \A i \in Keys :
              /\ RLe(Zero, sol.shadowPrices[i])
              /\ sol.shadowPrices[i] =
                    RAbs(matrix[numConstraints][numFoods(foods) + i])

\* a returned Solution whose final objective row has a negative entry under
\* a slack column, and a positive shadow price for it
C14_Witness ==
    /\ pc \in Terminal
    /\ sol.kind = "solution"
    /\ pivots > 0
    /\ \E i \in Keys :
          /\ RLt(matrix[numConstraints][numFoods(foods) + i], Zero)
          /\ RLt(Zero, sol.shadowPrices[i])


(***************************************************************************)
(* The analyzers on amounts around their thresholds: items whose column    *)
(* is a unit vector from the start are read off the RHS without a pivot    *)
(* (in the browser the objective row counts too, so the item is free):     *)
(* the requirement sets the amount.                                        *)
(***************************************************************************)
SensCatalog ==
    { FoodNamed("C"),
      FoodNamed("B"),
      Food("G", R(-17, 8), IVec(-2, 2)),
      Food("Z", Zero, IVec(-1, 0)),
      ReferenceFoods[0] }

SensFoods == UNION {[0 .. k - 1 -> SensCatalog] : k \in 1 .. 2}

\* amounts 2, 0.005 (between epsilon and 0.01) and 0.0000005
SensReqs ==
    { ReferenceConstraints,
      IVec(-2, -2),
      Vec(R(-1, 200), R(-1, 200), Zero, Zero, Zero),
      Vec(R(-1, 2000000), R(-2, 1), Zero, Zero, Zero) }

InitSens ==
    /\ entry \in Entries
    /\ foodsGiven = TRUE
    /\ foods \in SensFoods
    /\ constraints \in SensReqs
    /\ pc = "idle"
    /\ matrix = NoMatrix
    /\ basis = << >>
    /\ iteration = 0
    /\ iterations = << >>
    /\ sol = NoSol
    /\ response = NoResponse
    /\ pivots = 0
    /\ lastPivot = NoPivot
    /\ entered = -1
    /\ prev = NoPrev
    /\ log = << >>
    /\ sens = NoSens
    /\ ui = NoUi

NextSens == SolveCall \/ Sensitivity

SpecSens == InitSens /\ [][NextSens]_vars

\* the server and C analyzers have run
Analyzed == sens.called /\ entry \in {"optimize", "cli"}

\* the result holds a record of item j whose sweep has an entry at pct = 0
\* with the unit cost as newCost and a costImpact of exactly 0
SweptAtZero(j) ==
    \E k \in DOMAIN sens.data :
        /\ sens.data[k].food = foods[j].name
        /\ sens.data[k].currentPrice = foods[j].cost
        /\ sens.data[k].quantity = sens.amounts[j]
        /\ \E e \in DOMAIN sens.data[k].analysis :
              /\ sens.data[k].analysis[e].priceChange = 0
              /\ sens.data[k].analysis[e].newPrice = foods[j].cost
              /\ sens.data[k].analysis[e].impactOnTotal = Zero

(***************************************************************************)
(* C15, as stated: for every item with a positive amount, the sweep entry  *)
(* at pct = 0 has newCost equal to the item's unit cost and costImpact     *)
(* exactly 0 (server and C analyzers).                                     *)
(***************************************************************************)
C15_PositiveSweptAtZero ==
    Analyzed =>
        \A j \in DOMAIN foods : RLt(Zero, sens.amounts[j]) => SweptAtZero(j)

(***************************************************************************)
(* C15, amended: for every item whose amount is above epsilon, the sweep   *)
(* entry at pct = 0 has newCost equal to the item's unit cost and          *)
(* costImpact exactly 0; an item with an amount in (0, epsilon] has no     *)
(* sweep.                                                                  *)
(***************************************************************************)
C15_UsedSweptAtZero ==
    Analyzed =>
        \A j \in DOMAIN foods :
            /\ RLt(epsilon, sens.amounts[j]) => SweptAtZero(j)
            /\ ~RLt(epsilon, sens.amounts[j]) =>
                  \A k \in DOMAIN sens.data : sens.data[k].quantity # sens.amounts[j]

C15_Witness ==
    /\ Analyzed
    /\ \E j \in DOMAIN foods :
          /\ RLt(epsilon, sens.amounts[j])
          /\ sens.amounts[j] # One
          /\ foods[j].cost # Zero
          /\ SweptAtZero(j)


\* the result as a sequence of per-item sweeps; the browser's flat list is
\* read eleven entries at a time
SensRecords ==
    IF entry = "browser"
    THEN [k \in 1 .. (Len(sens.data) \div 11) |->
             [food |-> sens.data[11 * (k - 1) + 1].food,
              analysis |-> [e \in 1 .. 11 |-> sens.data[11 * (k - 1) + e]]]]
    ELSE sens.data

\* the items whose amount is above epsilon, and the k-th of them
UsedItems == {j \in DOMAIN foods : RLt(epsilon, sens.amounts[j])}
UsedItem(k) ==
    CHOOSE j \in UsedItems : Cardinality({h \in UsedItems : h < j}) = k - 1

(***************************************************************************)
(* C16: in every copy of the analyzer, the sensitivity result has one      *)
(* record for exactly the items with amounts[j] > epsilon, in item order;  *)
(* each sweep has exactly 11 entries, pct = -50, -40, ..., 50 ascending,   *)
(* with newCost = unitCost[j] * (1 + pct/100) and                          *)
(* costImpact = amounts[j] * (newCost - unitCost[j]).                      *)
(***************************************************************************)
C16_SensitivityRecords ==
    sens.called =>
        /\ Len(SensRecords) = Cardinality(UsedItems)
        /\ \A k \in DOMAIN SensRecords :
              LET rec == SensRecords[k]
                  j == UsedItem(k)
              IN  /\ rec.food = foods[j].name
                  /\ Len(rec.analysis) = 11
                  /\ \A e \in 1 .. 11 :
                        LET pct == 10 * (e - 1) - 50
                            newCost == RMul(foods[j].cost, RAdd(One, R(pct, 100)))
                        IN  /\ rec.analysis[e].priceChange = pct
                            /\ rec.analysis[e].newPrice = newCost
                            /\ rec.analysis[e].impactOnTotal =
                                   RMul(sens.amounts[j], RSub(newCost, foods[j].cost))

\* the same for the server and C analyzers alone
SensRecordsServerAndC == entry # "browser" => C16_SensitivityRecords


\* every objective-row entry in the columns 0 .. n + m - 1 is >= 0
ObjectiveNonNegative ==
    \A j \in 0 .. numFoods(foods) + numConstraints - 1 :
        RLe(Zero, matrix[numConstraints][j])

(***************************************************************************)
(* C17: when solve ends Optimal, every objective-row entry in the columns  *)
(* 0 .. n + m - 1 is >= 0, and the engine leaves Running for Optimal only  *)
(* in such a state (of the tableau it then reads without changing it).     *)
(***************************************************************************)
C17_OptimalityCertificate ==
    /\ [](pc = "Optimal" => ObjectiveNonNegative)
    /\ [][pc = "Running" /\ pc' = "Optimal" =>
              ObjectiveNonNegative /\ matrix' = matrix]_vars

C17_Witness ==
    /\ pc = "Optimal"
    /\ pivots > 0
    /\ \E j \in 0 .. numFoods(foods) - 1 : RLt(foods[j].cost, Zero)
    /\ ObjectiveNonNegative


C19_PivotPostcondition ==
    [][pivots' = pivots + 1 =>
          LET r == lastPivot'.row
              c == lastPivot'.col
          IN  /\ r = pivotRow /\ c = pivotCol
              /\ matrix'[r][c] = One
              /\ \A i \in DOMAIN matrix' : i # r => matrix'[i][c] = Zero
              /\ entry # "browser" =>
                    /\ basis'[r] = c
                    /\ \A i \in DOMAIN basis : i # r => basis'[i] = basis[i]]_vars

C19_Witness ==
    /\ pivots = 2
    /\ entry # "browser"
    /\ matrix[lastPivot.row][lastPivot.col] = One
    /\ basis[lastPivot.row] = lastPivot.col
    /\ \E i \in Keys : i # lastPivot.row /\ basis[i] < numFoods(foods)


(***************************************************************************)
(* C20: whenever solve invokes pivot(r, c), the pivot element matrix[r][c] *)
(* is not within epsilon of 0: the element handed to pivot is below        *)
(* -epsilon, in every copy of the solver, the browser's included.          *)
(***************************************************************************)
C20_PivotElementAwayFromZero ==
    [][pivots' = pivots + 1 =>
          RLt(matrix[lastPivot'.row][lastPivot'.col], RNeg(epsilon))]_vars

\* the same for the server and C copies alone
PivotElementServerAndC ==
    [][pivots' = pivots + 1 /\ entry # "browser" =>
          RLt(matrix[lastPivot'.row][lastPivot'.col], RNeg(epsilon))]_vars

\* the ratio of constraint row i for the entering column c
Ratio(i, c) == RDiv(RNeg(matrix[i][numFoods(foods) + numConstraints]), matrix[i][c])

\* the rows findLeavingRow may return: an entry below -epsilon and a
\* strictly positive ratio
LeavingCandidates(c) ==
    {i \in Keys : RLt(matrix[i][c], RNeg(epsilon)) /\ RLt(Zero, Ratio(i, c))}

\* the selected row is the lowest-indexed candidate of smallest ratio, and
\* none (-1) exactly when there is no candidate
LeavingRowAsSpecified(r, c) ==
    IF LeavingCandidates(c) = {} THEN r = -1
    ELSE /\ r \in LeavingCandidates(c)
         /\ \A i \in LeavingCandidates(c) :
               /\ RLe(Ratio(r, c), Ratio(i, c))
               /\ Ratio(i, c) = Ratio(r, c) => r <= i

(***************************************************************************)
(* C21: findLeavingRow(enteringCol) returns the row, among the constraint  *)
(* rows 0 .. m-1 with an entry below -epsilon in the entering column,      *)
(* whose ratio -RHS/entry is the smallest strictly positive one, the       *)
(* lowest row index on ties; it returns none exactly when no row has both  *)
(* an entry below -epsilon and a strictly positive ratio; the objective    *)
(* row is never returned. Stated for every copy, the browser's included.   *)
(***************************************************************************)
C21_LeavingRow ==
    pc = "Running" /\ pivotCol # -1 =>
        /\ pivotRow \in Keys \cup {-1}
        /\ LeavingRowAsSpecified(pivotRow, pivotCol)

\* the same for the server and C copies alone
LeavingRowServerAndC == entry # "browser" => C21_LeavingRow

\* a state where two candidate rows tie on the smallest ratio
LeavingRowTie ==
    /\ pc = "Running" /\ pivotCol # -1 /\ entry # "browser"
    /\ \E i, k \in LeavingCandidates(pivotCol) :
          i # k /\ Ratio(i, pivotCol) = Ratio(k, pivotCol) /\ pivotRow = i


(***************************************************************************)
(* C22: findEnteringColumn returns the column among 0 .. n+m-1 (the RHS    *)
(* column is excluded) holding the most negative objective-row value, the  *)
(* lowest index on ties, and returns none exactly when every such          *)
(* objective-row entry is >= 0.                                            *)
(***************************************************************************)
C22_EnteringColumn ==
    pc = "Running" =>
        LET cols == 0 .. numFoods(foods) + numConstraints - 1
            obj == matrix[numConstraints]
        IN  IF \A j \in cols : RLe(Zero, obj[j]) THEN pivotCol = -1
            ELSE /\ pivotCol \in cols
                 /\ RLt(obj[pivotCol], Zero)
                 /\ \A j \in cols :
                       /\ RLe(obj[pivotCol], obj[j])
                       /\ obj[j] = obj[pivotCol] => pivotCol <= j

\* two columns tie on the most negative value and the lower one is taken
C22_Witness ==
    /\ pc = "Running"
    /\ pivotCol # -1
    /\ \E j \in 0 .. numFoods(foods) + numConstraints - 1 :
          j > pivotCol /\ matrix[numConstraints][j] = matrix[numConstraints][pivotCol]

\* the most negative value stands behind a less negative one
EnteringNotFirstNegative ==
    /\ pc = "Running"
    /\ pivotCol # -1
    /\ \E j \in 0 .. pivotCol - 1 : RLt(matrix[numConstraints][j], Zero)


\* the call has returned a Solution with its snapshot list (the C copy keeps
\* no snapshots)
ReturnedWithSnapshots ==
    /\ pc \in {"Optimal", "IterationLimitReached"}
    /\ sol.kind = "solution"
    /\ entry # "cli"

(***************************************************************************)
(* C23: solve appends exactly one snapshot per pivot, taken after that     *)
(* pivot: on return the snapshot list has as many entries as pivots were   *)
(* performed, and its k-th entry is a copy of the matrix immediately after *)
(* the k-th pivot (so the last snapshot equals the tableau the Solution    *)
(* was extracted from).                                                    *)
(***************************************************************************)
C23_SnapshotPerPivot ==
    /\ [](ReturnedWithSnapshots =>
             /\ Len(iterations) = pivots
             /\ pivots > 0 => iterations[Len(iterations)] = matrix)
    /\ [][pivots' = pivots + 1 /\ entry # "cli" =>
              iterations' = Append(iterations, matrix')]_vars

\* what the code does instead: one snapshot at the top of every pass of the
\* loop, before the entering column is looked for
SnapshotPerPass ==
    /\ [](ReturnedWithSnapshots /\ pc = "Optimal" =>
             /\ Len(iterations) = pivots + 1
             /\ iterations[Len(iterations)] = matrix)
    /\ [][pivots' = pivots + 1 /\ entry # "cli" =>
              iterations' = Append(iterations, matrix)]_vars


\* x is within epsilon of c
Within(x, c) == RLt(RAbs(RSub(x, c)), epsilon)

\* the constraint rows at which item column j is basic: the entry is within
\* epsilon of 1 and every other constraint row's entry within epsilon of 0
BasicAt(j) ==
    {i \in Keys : /\ Within(matrix[i][j], One)
                  /\ \A k \in Keys \ {i} : Within(matrix[k][j], Zero)}

(***************************************************************************)
(* C24: SolutionExtractor sets amounts[j] = max(0, RHS[i]) when item       *)
(* column j is basic at row i (exactly one constraint row i has an entry   *)
(* within epsilon of 1 and every other row an entry within epsilon of 0)   *)
(* and amounts[j] = 0 otherwise; no item column that is not such a unit    *)
(* vector receives a nonzero amount. Stated for every copy.                *)
(***************************************************************************)
C24_ExtractedAmounts ==
    pc \in Terminal /\ sol.kind = "solution" =>
        \A j \in DOMAIN foods :
            IF BasicAt(j) = {} THEN sol.amounts[j] = Zero
            ELSE /\ Cardinality(BasicAt(j)) = 1
                 /\ \A i \in BasicAt(j) :
                       sol.amounts[j] =
                           RMax(Zero, matrix[i][numFoods(foods) + numConstraints])

\* the same for the server and C copies alone
ExtractedAmountsServerAndC == entry # "browser" => C24_ExtractedAmounts

\* the other reading, the objective row counted among the other rows: this
\* the browser copy does, and the server and C copies do not
ExtractedAmountsWholeColumn ==
    pc \in Terminal /\ sol.kind = "solution" /\ entry = "browser" =>
        \A j \in DOMAIN foods :
            IF \E i \in BasicAt(j) : Within(matrix[numConstraints][j], Zero)
            THEN \A i \in BasicAt(j) :
                    sol.amounts[j] =
                        RMax(Zero, matrix[i][numFoods(foods) + numConstraints])
            ELSE sol.amounts[j] = Zero


\* every unit cost and every nutrient coefficient is >= 0
NonNegativeItems ==
    \A j \in DOMAIN foods :
        /\ RLe(Zero, foods[j].cost)
        /\ \A i \in Keys : RLe(Zero, foods[j].nutrients[i])

ObjectiveRHS(M) == M[numConstraints][numFoods(foods) + numConstraints]

RowRead(j) ==
    IF entry = "browser"
    THEN LET nonZero == {i \in DOMAIN matrix : RLt(epsilon, RAbs(matrix[i][j]))}
             ones == {i \in DOMAIN matrix : Within(matrix[i][j], One)}
         IN  IF Cardinality(nonZero) = 1 /\ nonZero \subseteq ones
             THEN SetMin(ones) ELSE -1
    ELSE BasicRow(matrix, j)

(***************************************************************************)
(* C27: the extractor agrees with the basis vector: in every Solution      *)
(* returned by solve, amounts[j] > 0 only if basis[i] = j for the row i    *)
(* whose RHS was read, so the RHS of one row is never credited to two      *)
(* different items and the basis entries are pairwise distinct. The        *)
(* browser copy keeps no basis array and is held to the middle clause.     *)
(***************************************************************************)
C27_ExtractorAgreesWithBasis ==
    pc \in Terminal /\ sol.kind = "solution" =>
        /\ entry # "browser" =>
              \A j \in DOMAIN foods :
                  RLt(Zero, sol.amounts[j]) => basis[RowRead(j)] = j
        /\ \A j, k \in DOMAIN foods :
              j # k /\ RLt(Zero, sol.amounts[j]) /\ RLt(Zero, sol.amounts[k])
                 => RowRead(j) # RowRead(k)
        /\ entry # "browser" =>
              \A i, k \in Keys : i # k => basis[i] # basis[k]

\* the last clause alone
BasisDistinct ==
    entry # "browser" /\ pc \in (Terminal \cup {"Running"}) \ {"InvalidInput"} =>
        \A i, k \in Keys : i # k => basis[i] # basis[k]

\* the first clause for items that entered by a pivot and were not driven
\* out again
PivotedAgreesWithBasis ==
    pc \in Terminal /\ sol.kind = "solution" /\ entry # "browser" =>
        \A i \in Keys : basis[i] < numFoods(foods) => RowRead(basis[i]) = i

\* one row's RHS credited to two items
CreditedTwice ==
    /\ pc \in Terminal /\ sol.kind = "solution"
    /\ \E j, k \in DOMAIN foods :
          j # k /\ RLt(Zero, sol.amounts[j]) /\ RowRead(j) = RowRead(k)
             /\ sol.amounts[k] = sol.amounts[j]


(***************************************************************************)
(* C28: the browser-side solver and the server-side solver are equivalent: *)
(* for every item list and requirement set on which the server-side solver *)
(* returns a Solution, the browser-side solver performs the same pivot     *)
(* sequence (the same tableau at every pass) and yields the same amounts,  *)
(* totalCost and shadowPrices.                                             *)
(***************************************************************************)
C28_BrowserEquivalent ==
    entry = "optimize" /\ pc \in Terminal /\ sol.kind = "solution" =>
        \A b \in {Solve("browser", foods, constraints)} :
            /\ b.fin.iterations = iterations
            /\ b.fin.iteration = pivots
            /\ b.sol.amounts = sol.amounts
            /\ b.sol.totalCost = sol.totalCost
            /\ b.sol.shadowPrices = sol.shadowPrices

\* the same pivot sequence and the same final tableau, which is what the
\* two copies do share on such input
BrowserSamePivots ==
    entry = "optimize" /\ pc \in Terminal /\ sol.kind = "solution" =>
        \A b \in {Solve("browser", foods, constraints)} :
            /\ b.fin.iterations = iterations
            /\ b.fin.iteration = pivots
            /\ b.fin.matrix = matrix
            /\ b.sol.shadowPrices = sol.shadowPrices


(***************************************************************************)
(* The two user interfaces: the Angular AppComponent, which posts its food *)
(* list to /api/optimize, and the React DietOptimizer, which runs its own  *)
(* simplex(). Each food carries an id; ui.ids[j] is the id of foods[j].    *)
(***************************************************************************)
MaxClicks == 2
MaxAdded == 1

\* the item addFood appends
NewFood ==
    Food("New Food", One, Vec(R(10, 1), R(20, 1), R(5, 1), R(3, 1), R(10, 1)))

\* lists with one more element, and with the element at index k taken out
AppendTo(f, x) ==
    [j \in 0 .. Cardinality(DOMAIN f) |-> IF j \in DOMAIN f THEN f[j] ELSE x]
RemoveAt(f, k) ==
    [j \in 0 .. Cardinality(DOMAIN f) - 2 |-> IF j < k THEN f[j] ELSE f[j + 1]]

\* Math.max(...this.foods.map(f => f.id), 0) + 1; Date.now() in the React
\* copy, taken as a number above every id in use
NewId(ids) ==
    IF DOMAIN ids = {} THEN 1
    ELSE (CHOOSE x \in {ids[j] : j \in DOMAIN ids} :
              \A j \in DOMAIN ids : ids[j] <= x) + 1

\* food tables the user can have typed in before the first click
UiFoodLists ==
    { ReferenceFoods,
      [j \in 0 .. 1 |-> IF j = 0 THEN FoodNamed("C")
                                  ELSE Food("Z", Zero, IVec(-1, 0))] }

UiReqs == {ReferenceConstraints, IVec(-2, -2)}

InitUI ==
    /\ entry \in {"optimize", "browser"}
    /\ foodsGiven = TRUE
    /\ foods \in UiFoodLists
    /\ constraints \in UiReqs
    /\ pc = "idle"
    /\ matrix = NoMatrix
    /\ basis = << >>
    /\ iteration = 0
    /\ iterations = << >>
    /\ sol = NoSol
    /\ response = NoResponse
    /\ pivots = 0
    /\ lastPivot = NoPivot
    /\ entered = -1
    /\ prev = NoPrev
    /\ log = << >>
    /\ sens = NoSens
    /\ ui = [framework |-> IF entry = "optimize" THEN "angular" ELSE "react",
             ids |-> [j \in DOMAIN foods |-> j + 1],
             solution |-> NoSol,
             givenIds |-> << >>,
             loading |-> FALSE,
             error |-> FALSE,
             inFlight |-> << >>,
             clicks |-> 0,
             added |-> 0]

\* the variables of a solver call, which the UI handlers do not touch
callState == << entry, foodsGiven, constraints, pc, matrix, basis, iteration, sol,
                response, pivots, lastPivot, entered, prev, log >>

\* AppComponent.addFood / DietOptimizer.addFood
AddFood ==
    /\ ui.added < MaxAdded
    /\ foods' = AppendTo(foods, NewFood)
    /\ ui' = [ui EXCEPT !.ids = AppendTo(@, NewId(@)), !.added = @ + 1]
    /\ UNCHANGED << callState, iterations, sens >>

\* AppComponent.deleteFood / DietOptimizer.deleteFood
DeleteFood ==
    /\ \E k \in DOMAIN foods :
          /\ foods' = RemoveAt(foods, k)
          /\ ui' = [ui EXCEPT !.ids = RemoveAt(@, k)]
    /\ UNCHANGED << callState, iterations, sens >>

\* the React Optimize button: simplex() runs to its end and sets solution,
\* tableau and sensitivityData
ReactOptimize ==
    /\ ui.framework = "react"
    /\ ui.clicks < MaxClicks
    /\ \E out \in {Solve("browser", foods, constraints)} :
          /\ ui' = [ui EXCEPT !.solution = out.sol, !.givenIds = ui.ids,
                              !.clicks = @ + 1]
          /\ iterations' = out.fin.iterations
          /\ sens' = SensAfterSolve("browser", out.sol, foods, sens)
    /\ UNCHANGED << callState, foods >>

\* AppComponent.optimize with the button not disabled while loading
AngularOptimizeEnabled ==
    /\ ui.framework = "angular"
    /\ ui.clicks < MaxClicks
    /\ ui' = [ui EXCEPT !.loading = TRUE, !.error = FALSE, !.solution = NoSol,
                        !.inFlight = Append(@, [foods |-> foods, ids |-> ui.ids,
                                                constraints |-> constraints]),
                        !.clicks = @ + 1]
    /\ UNCHANGED << callState, foods, iterations, sens >>

\* AppComponent.optimize, reached through the button, which is disabled
\* while loading
AngularOptimize ==
    /\ ui.framework = "angular"
    /\ ~ui.loading
    /\ ui.clicks < MaxClicks
    /\ ui' = [ui EXCEPT !.loading = TRUE, !.error = FALSE, !.solution = NoSol,
                        !.inFlight = Append(@, [foods |-> foods, ids |-> ui.ids,
                                                constraints |-> constraints]),
                        !.clicks = @ + 1]
    /\ UNCHANGED << callState, foods, iterations, sens >>

\* a sequence without its k-th element
Without(q, k) == SubSeq(q, 1, k - 1) \o SubSeq(q, k + 1, Len(q))

\* the next callback: the server answered 200 with the Solution
AngularNext ==
    /\ ui.framework = "angular"
    /\ \E k \in DOMAIN ui.inFlight :
          /\ numFoods(ui.inFlight[k].foods) > 0
          /\ \E out \in {Solve("optimize", ui.inFlight[k].foods,
                               ui.inFlight[k].constraints)} :
                /\ out.sol.kind = "solution"
                /\ ui' = [ui EXCEPT !.solution = out.sol,
                                    !.givenIds = ui.inFlight[k].ids,
                                    !.loading = FALSE,
                                    !.inFlight = Without(@, k)]
    /\ UNCHANGED << callState, foods, iterations, sens >>

\* the error callback: the server answered 400 or 500, or did not answer
AngularError ==
    /\ ui.framework = "angular"
    /\ \E k \in DOMAIN ui.inFlight :
          ui' = [ui EXCEPT !.error = TRUE, !.loading = FALSE,
                           !.inFlight = Without(@, k)]
    /\ UNCHANGED << callState, foods, iterations, sens >>

NextUI ==
    \/ AddFood \/ DeleteFood \/ ReactOptimize
    \/ AngularOptimize \/ AngularNext \/ AngularError

SpecUI == InitUI /\ [][NextUI]_vars

\* a solution is displayed: *ngIf="solution" / {solution && ...}
Displayed == ui.framework # "none" /\ ui.solution.kind = "solution"

(***************************************************************************)
(* C29: in both UIs, after any sequence of addFood, deleteFood and         *)
(* optimize actions, whenever a solution is displayed its amounts list has *)
(* the same length as the current foods list and amounts[i] is shown       *)
(* against the same food that was at index i of the list given to the      *)
(* solver.                                                                 *)
(***************************************************************************)
C29_AmountsMatchFoods ==
    Displayed =>
        /\ DOMAIN ui.solution.amounts = DOMAIN foods
        /\ \A i \in DOMAIN foods : ui.ids[i] = ui.givenIds[i]

\* what holds instead: the amounts belong to the list that was given
AmountsMatchGivenList ==
    Displayed => DOMAIN ui.solution.amounts = DOMAIN ui.givenIds

\* an amount above 0.01 is shown against a food other than the one it was
\* computed for
ShownAgainstOtherFood ==
    /\ Displayed
    /\ \E i \in DOMAIN foods \cap DOMAIN ui.solution.amounts :
          /\ RLt(usedThreshold, ui.solution.amounts[i])
          /\ ui.ids[i] # ui.givenIds[i]


(***************************************************************************)
(* C30: in the Angular component, after any sequence of Optimize clicks    *)
(* and HTTP success/error callbacks, solution and error are never both     *)
(* non-null, at most one optimize request is in flight (the button is      *)
(* disabled while loading), and loading is true exactly while a request is *)
(* awaiting its response.                                                  *)
(***************************************************************************)
C30_OneRequestInFlight ==
    ui.framework = "angular" =>
        /\ ~(ui.solution # NoSol /\ ui.error)
        /\ Len(ui.inFlight) <= 1
        /\ ui.loading <=> Len(ui.inFlight) > 0

\* a second click has been answered, after an error and after a solution
C30_Witness ==
    /\ ui.framework = "angular"
    /\ ui.clicks = 2
    /\ ~ui.loading
    /\ ui.solution # NoSol \/ ui.error

====
